---- MODULE Spec2Model ----
(***************************************************************************)
(* graphql.py: a batch of GraphQL requests run as asyncio tasks, one task  *)
(* per id (doQuery), throttled by a polled counter (state.activeTasks),    *)
(* retried on HTTP 429 with a doubling backoff, and summarised by main()   *)
(* once asyncio.gather has collected every task.                           *)
(*                                                                         *)
(* One step of the model is what one task runs between two suspension      *)
(* points of the event loop (await sleep(0), await sess.post, await        *)
(* resp.json, await sleep(backoff)): asyncio never preempts a task         *)
(* anywhere else.                                                          *)
(***************************************************************************)
EXTENDS Integers, Sequences, FiniteSets

\* ---------------------------------------------------------------- bounds
NumItems == 2
MaxLimit == 2
MaxRetries == 2

\* ------------------------------------------------------------- constants
OK == 200
TOO_MANY == 429
SERVER_ERROR == 500
FAILED == -1
NoResult == 0
Raised == -2

varList == 1..NumItems
totalIDs == NumItems
Statuses == {OK, TOO_MANY, SERVER_ERROR}
Bodies == {"ok", "errors", "bad"}
\* What `'errors' in json` finds is looked at under status 200 only (line
\* 259 is an elif of `resp.status != 200`): under another status a body
\* either decodes or does not.
BodiesUnder(s) == IF s = OK THEN Bodies ELSE {"ok", "bad"}
\* The line numbers of the blank lines of an input file: they get no task.
BlankLines == {totalIDs + 1}

VARIABLES
  concurrent_requests, retries, args_stop,
  activeTasks, doneTasks, stop_immediately,
  pc, tries, backoff, respStatus,
  responseList, results,
  mainpc, successes, failures,
  attempts, codes, delays, lastBody, returns, summaries, interrupted,
  statusLines, counted

config == <<concurrent_requests, retries, args_stop>>
shared == <<activeTasks, doneTasks, stop_immediately>>
task == <<pc, tries, backoff, respStatus>>
coord == <<mainpc, successes, failures, summaries>>
hist == <<attempts, codes, delays, lastBody, returns, interrupted, statusLines, counted>>
vars == <<config, shared, task, responseList, results, coord, hist>>

\* ------------------------------------------------------------ pure parts
\* Mutant of max_requests: one attempt too many.
max_requests_OneMore == IF args_stop THEN 1 ELSE retries + 2

max_requests == IF args_stop THEN 1 ELSE retries + 1

\* Mutants of error_code: line 262, resp. line 258, forgotten.
error_code_ErrorsKeepStatus(status, body) ==
  IF status # OK THEN status
  ELSE IF body = "bad" THEN FAILED
  ELSE status

error_code_NoDecodeCheck(status, body) ==
  IF status # OK THEN status
  ELSE IF body = "errors" THEN FAILED
  ELSE status

\* Mutant of error_code: the test of line 259 inverted.
error_code_InvertedErrors(status, body) ==
  IF status # OK THEN status
  ELSE IF body = "bad" THEN FAILED
  ELSE IF body # "errors" THEN FAILED
  ELSE status

error_code(status, body) ==
  IF status # OK THEN status
  ELSE IF body = "bad" THEN FAILED
  ELSE IF body = "errors" THEN FAILED
  ELSE status

\* Mutant of GateOpen: the gate lets one task too many through.
GateOpen_Inclusive == activeTasks <= concurrent_requests

GateOpen == activeTasks < concurrent_requests

\* Mutant of CountsAsDone: a 429 response is counted as done too.
CountsAsDone_Always(s) == TRUE

CountsAsDone(s) == s # TOO_MANY

\* Mutant of StopOnFailure: args.stop is not looked at.
StopOnFailure_Always(resp_code) == resp_code # OK

StopOnFailure(resp_code) == args_stop /\ resp_code # OK

\* Mutant of StopObserved: the flag is never looked at.
StopObserved_Never == FALSE

StopObserved == stop_immediately

\* Mutant of Retryable: every failure is retried.
Retryable_AnyFailure(resp_code) == resp_code # OK

Retryable(resp_code) == resp_code = TOO_MANY

\* Mutant of NextBackoff: the delay is not doubled.
NextBackoff_Constant(b) == b

NextBackoff(b) == b * 2

\* Mutant of AllReturned: gather resumes main at the first task done.
AllReturned_First == \E i \in varList : pc[i] = "returned"

AllReturned == \A i \in varList : pc[i] = "returned"

CountSuccesses == Cardinality({i \in varList : results[i] = OK})

NeverHeardBack(list) == {v \in list : v \notin responseList}

\* round(state.doneTasks / totalIDs * 100, 1), in tenths of a percent.
percentComplete == (2000 * doneTasks + totalIDs) \div (2 * totalIDs)

\* ------------------------------------------------------------------ Init
Init ==
  /\ concurrent_requests \in 1..MaxLimit
  /\ retries \in 0..MaxRetries
  /\ args_stop \in BOOLEAN
  /\ activeTasks = 0
  /\ doneTasks = 0
  /\ stop_immediately = FALSE
  /\ pc = [i \in varList |-> "gate"]
  /\ tries = [i \in varList |-> 0]
  /\ backoff = [i \in varList |-> 1]
  /\ respStatus = [i \in varList |-> NoResult]
  /\ responseList = {}
  /\ results = [i \in varList |-> NoResult]
  /\ mainpc = "gather"
  /\ successes = 0
  /\ failures = {}
  /\ summaries = 0
  /\ attempts = [i \in varList |-> 0]
  /\ codes = [i \in varList |-> <<>>]
  /\ delays = [i \in varList |-> <<>>]
  /\ lastBody = [i \in varList |-> "none"]
  /\ returns = [i \in varList |-> 0]
  /\ interrupted = FALSE
  /\ statusLines = [i \in varList |-> 0]
  /\ counted = [i \in varList |-> 0]

\* --------------------------------------------------------------- doQuery
\* `return v` of doQuery: the task is done and gather holds its value.
Return(i, v) ==
  /\ pc' = [pc EXCEPT ![i] = "returned"]
  /\ results' = [results EXCEPT ![i] = v]
  /\ returns' = [returns EXCEPT ![i] = @ + 1]

\* The top of iteration t of `for tries in range(max_requests)`, up to the
\* suspension in sess.post: the stop check, then internal()'s increment.
LoopTop(i, t, b) ==
  /\ tries' = [tries EXCEPT ![i] = t]
  /\ backoff' = [backoff EXCEPT ![i] = b]
  /\ \/ /\ StopObserved
        /\ doneTasks' = doneTasks + 1
        /\ counted' = [counted EXCEPT ![i] = @ + 1]
        /\ Return(i, FAILED)
        /\ UNCHANGED <<activeTasks, respStatus, attempts, lastBody>>
     \/ /\ ~StopObserved
        /\ activeTasks' = activeTasks + 1
        /\ pc' = [pc EXCEPT ![i] = "post"]
        /\ respStatus' = [respStatus EXCEPT ![i] = NoResult]
        /\ lastBody' = [lastBody EXCEPT ![i] = "none"]
        /\ attempts' = [attempts EXCEPT ![i] = @ + 1]
        /\ UNCHANGED <<doneTasks, counted, results, returns>>

\* The gate: `while state.activeTasks >= concurrent_requests: await sleep(0)`
\* falls through, and the task runs on to its first suspension.
Acquire(i) ==
  /\ pc[i] = "gate"
  /\ GateOpen
  /\ LoopTop(i, 0, 1)
  /\ UNCHANGED <<config, stop_immediately, responseList, coord, codes, delays, interrupted,
                 statusLines>>

\* sess.post answers with status s: the head of the `async with` body.
PostResponds(i, s) ==
  /\ pc[i] = "post"
  /\ activeTasks' = activeTasks - 1
  /\ doneTasks' = IF CountsAsDone(s) THEN doneTasks + 1 ELSE doneTasks
  /\ counted' = IF CountsAsDone(s) THEN [counted EXCEPT ![i] = @ + 1] ELSE counted
  /\ responseList' = responseList \cup {i}
  /\ respStatus' = [respStatus EXCEPT ![i] = s]
  /\ codes' = [codes EXCEPT ![i] = Append(@, s)]
  /\ pc' = [pc EXCEPT ![i] = "body"]
  /\ UNCHANGED <<config, stop_immediately, tries, backoff, results, coord,
                 attempts, delays, lastBody, returns, interrupted, statusLines>>

\* sess.post raises (connection reset, ...): nothing in doQuery catches it,
\* the task ends with the exception and gather(return_exceptions=True)
\* stores it as the task's result.
PostRaises(i) ==
  /\ pc[i] = "post"
  /\ Return(i, Raised)
  /\ UNCHANGED <<config, shared, tries, backoff, respStatus, responseList, coord,
                 attempts, codes, delays, lastBody, interrupted, statusLines, counted>>

\* resp.json() has read the body (b: it decodes without an `errors` key,
\* decodes with one, or fails to decode): the rest of internal(), then
\* doQuery up to its next suspension or return.
BodyRead(i, b) ==
  LET resp_code == error_code(respStatus[i], b) IN
  /\ pc[i] = "body"
  /\ lastBody' = [lastBody EXCEPT ![i] = b]
  /\ statusLines' = [statusLines EXCEPT ![i] = @ + 1]
  /\ \/ /\ StopObserved
        /\ Return(i, resp_code)
        /\ UNCHANGED <<shared, delays, counted>>
     \/ /\ ~StopObserved
        /\ StopOnFailure(resp_code)
        /\ stop_immediately' = TRUE
        /\ Return(i, FAILED)
        /\ UNCHANGED <<activeTasks, doneTasks, delays, counted>>
     \/ /\ ~StopObserved
        /\ ~StopOnFailure(resp_code)
        /\ Retryable(resp_code)
        /\ tries[i] + 1 < max_requests
        /\ pc' = [pc EXCEPT ![i] = "sleep"]
        /\ delays' = [delays EXCEPT ![i] = Append(@, backoff[i])]
        /\ UNCHANGED <<shared, results, returns, counted>>
     \/ /\ ~StopObserved
        /\ ~StopOnFailure(resp_code)
        /\ Retryable(resp_code)
        /\ ~(tries[i] + 1 < max_requests)
        /\ doneTasks' = doneTasks + 1
        /\ counted' = [counted EXCEPT ![i] = @ + 1]
        /\ Return(i, FAILED)
        /\ UNCHANGED <<activeTasks, stop_immediately, delays>>
     \/ /\ ~StopObserved
        /\ ~StopOnFailure(resp_code)
        /\ ~Retryable(resp_code)
        /\ Return(i, resp_code)
        /\ UNCHANGED <<shared, delays, counted>>
  /\ UNCHANGED <<config, tries, backoff, respStatus, responseList, coord,
                 attempts, codes, interrupted>>

\* asyncio.sleep(backoff) is over: backoff doubles and the loop goes round.
Wake(i) ==
  /\ pc[i] = "sleep"
  /\ LoopTop(i, tries[i] + 1, NextBackoff(backoff[i]))
  /\ UNCHANGED <<config, stop_immediately, responseList, coord, codes, delays, interrupted,
                 statusLines>>

\* ------------------------------------------------------------------ main
\* gather has every task's result: count, list the unanswered, print.
\* The input is ids (uniform_type int: the list is varList) or files
\* (uniform_type str: the list is lineList, every line number of the files,
\* blank lines included). lineList is filled while the tasks are created
\* and read only here, so it is an input of this step.
Summary(uniform_type, lineList) ==
  /\ mainpc = "gather"
  /\ AllReturned
  /\ successes' = CountSuccesses
  /\ failures' = IF CountSuccesses = totalIDs THEN {}
                 ELSE IF uniform_type = "int" THEN NeverHeardBack(varList)
                 ELSE NeverHeardBack(lineList)
  /\ summaries' = summaries + 1
  /\ mainpc' = "done"
  /\ UNCHANGED <<config, shared, task, responseList, results, hist>>

main ==
  \/ Summary("int", {})
  \/ \E blanks \in SUBSET BlankLines : Summary("str", varList \cup blanks)

\* ----------------------------------------------------------------- ctrlc
\* The excepthook on KeyboardInterrupt.
ctrlc ==
  /\ mainpc = "gather"
  /\ ~stop_immediately
  /\ stop_immediately' = TRUE
  /\ interrupted' = TRUE
  /\ UNCHANGED <<config, activeTasks, doneTasks, task, responseList, results, coord,
                 attempts, codes, delays, lastBody, returns, statusLines, counted>>

doQuery(i) ==
  \/ Acquire(i)
  \/ \E s \in Statuses : PostResponds(i, s)
  \/ PostRaises(i)
  \/ \E b \in BodiesUnder(respStatus[i]) : BodyRead(i, b)
  \/ Wake(i)

Next ==
  \/ \E i \in varList : doQuery(i)
  \/ main
  \/ ctrlc

Spec == Init /\ [][Next]_vars

\* The event loop runs every ready task, every request and every sleep ends,
\* and main resumes once gather is complete; Ctrl+C is up to the user.
FairSpec ==
  /\ Spec
  /\ \A i \in varList : WF_vars(doQuery(i))
  /\ WF_vars(main)

\* ---------------------------------------------------------------- claims
TerminalFailure(i) == pc[i] = "returned" /\ results[i] # OK

Answered(i) == Len(codes[i]) = attempts[i] /\ attempts[i] >= 1

RECURSIVE Doubling(_)
Doubling(n) == IF n = 0 THEN <<>> ELSE Append(Doubling(n - 1), 2 ^ (n - 1))

\* C1: in every reachable state, retrying items included, activeTasks is at
\* most concurrent_requests.
C1_ActiveWithinLimit == activeTasks <= concurrent_requests

\* C2: when the batch is complete every item has returned exactly once, each
\* collected outcome is a success (200) or a failure (anything else), and
\* successes + failures = totalIDs.
C2_FailureCount == Cardinality({i \in varList : results[i] \in {FAILED, Raised, TOO_MANY, SERVER_ERROR}})

C2_OneOutcomeEach ==
  mainpc = "done" =>
    /\ \A i \in varList : returns[i] = 1 /\ results[i] # NoResult
    /\ successes + C2_FailureCount = totalIDs

C2_Witness ==
  /\ mainpc = "done"
  /\ successes >= 1
  /\ \E i \in varList : results[i] = FAILED
  /\ \E i \in varList : attempts[i] >= 2

\* C3: a returned item counts as a success exactly when its last response
\* was 200 with a body that decoded and had no `errors` key; 200 with
\* `errors`, or 200 with an undecodable body, returns -1; the summary's
\* success count is the number of such items.
C3_Success(i) == respStatus[i] = OK /\ lastBody[i] = "ok"

C4_RetryOnly429 ==
  \A i \in varList :
    /\ \A k \in 1..(attempts[i] - 1) : Len(codes[i]) >= k /\ codes[i][k] = TOO_MANY
    /\ (lastBody[i] # "none" /\ respStatus[i] # TOO_MANY) => pc[i] = "returned"

C4_Witness ==
  \E i \in varList :
    /\ attempts[i] = 2 /\ codes[i] = <<TOO_MANY, SERVER_ERROR>>
    /\ pc[i] = "returned" /\ max_requests = 3

\* C5: without --stop and with the stop flag never raised, a returned item
\* all of whose attempts were answered has slept 1, 2, 4, ... once between
\* each two attempts; if the last answer was 429 it made retries + 1
\* attempts and returned -1, otherwise it returned that attempt's result.
C5_Backoff ==
  \A i \in varList :
    (pc[i] = "returned" /\ ~args_stop /\ ~stop_immediately /\ Answered(i)) =>
      /\ delays[i] = Doubling(attempts[i] - 1)
      /\ \A k \in 1..(attempts[i] - 1) : codes[i][k] = TOO_MANY
      /\ respStatus[i] = TOO_MANY => (attempts[i] = retries + 1 /\ results[i] = FAILED)
      /\ respStatus[i] # TOO_MANY => results[i] = error_code(respStatus[i], lastBody[i])

C5_Witness ==
  /\ ~stop_immediately /\ retries = 2
  /\ \E i \in varList :
       /\ pc[i] = "returned" /\ codes[i] = <<TOO_MANY, TOO_MANY, TOO_MANY>>
       /\ delays[i] = <<1, 2>> /\ results[i] = FAILED
  /\ \E i \in varList :
       /\ pc[i] = "returned" /\ codes[i] = <<TOO_MANY, TOO_MANY, OK>>
       /\ delays[i] = <<1, 2>> /\ results[i] = OK

\* C6: with --stop, once any task has ended in failure the stop flag is set,
\* and an item that had made no attempt by then never makes one and returns
\* -1.
C6_StopOnFailure ==
  [][(args_stop /\ \E j \in varList : TerminalFailure(j)) =>
       /\ stop_immediately
       /\ \A i \in varList : attempts[i] = 0 =>
            /\ attempts'[i] = 0
            /\ pc'[i] = "returned" => results'[i] = FAILED]_vars

\* C7: without --stop, a task whose post raised is a failure of its own: no
\* other task is left at the gate with the gate shut and nothing in flight
\* that could open it, so every task returns and main goes on to the summary.
StuckAtGate(i) ==
  /\ pc[i] = "gate"
  /\ ~GateOpen
  /\ \A k \in varList : pc[k] \in {"gate", "returned"}

C7_FaultStaysLocal ==
  (~args_stop /\ \E j \in varList : results[j] = Raised) =>
    /\ \A j \in varList : results[j] = Raised => TerminalFailure(j)
    /\ \A i \in varList : ~StuckAtGate(i)

\* C8: under the event loop's fair scheduling, with every post and sleep
\* ending, every task returns and main prints the summary exactly once.
C8_Terminates == <>[](AllReturned /\ mainpc = "done" /\ summaries = 1)

\* C9: the stop flag is never cleared, and while it is set no item starts an
\* attempt (from the gate or after a backoff sleep); an attempt in flight
\* is not cut short: it ends with its own response, classified as usual, or
\* with its own exception.
C9_StopIsFinal ==
  [][stop_immediately =>
       /\ stop_immediately'
       /\ \A i \in varList :
            /\ attempts'[i] = attempts[i]
            /\ pc[i] = "post" => (pc'[i] \in {"post", "body"} \/ results'[i] = Raised)
            /\ (pc[i] = "body" /\ pc'[i] = "returned") =>
                 results'[i] = error_code(respStatus[i], lastBody'[i])]_vars

C9_Witness ==
  /\ stop_immediately
  /\ \E i \in varList : pc[i] = "post"
  /\ \E j \in varList :
       /\ pc[j] = "returned" /\ attempts[j] = 1 /\ delays[j] = <<1>>
       /\ results[j] = FAILED

C11_NeverResponded ==
  (mainpc = "done" /\ ~interrupted /\ successes # totalIDs) =>
    failures = {i \in varList : codes[i] = <<>>}

\* C12: doneTasks never decreases, and when the batch is complete (no
\* Ctrl+C, no post that raised) it is totalIDs.
C12_DoneCount ==
  [][/\ doneTasks' >= doneTasks
     /\ (mainpc' = "done" /\ ~interrupted /\ \A i \in varList : results[i] # Raised)
          => doneTasks' = totalIDs]_vars

\* C13: over a whole run (no Ctrl+C, no post that raised) every item gets
\* exactly one status line ("Processed <id> (<percent>% complete) - ...").
C13_OneLineEach ==
  (mainpc = "done" /\ ~interrupted /\ \A i \in varList : results[i] # Raised) =>
    \A i \in varList : statusLines[i] = 1

\* A returned item that was turned away by the stop check at the loop head:
\* it has slept as often as it has posted (never, if it came from the gate).
Skipped(i) == pc[i] = "returned" /\ Len(delays[i]) = attempts[i]

EveryAttemptOk(i) ==
  /\ Len(codes[i]) = attempts[i]
  /\ \A k \in 1..Len(codes[i]) : codes[i][k] = OK
  /\ lastBody[i] \in {"ok", "none"}

C15_AllOk ==
  (mainpc = "done" /\ ~interrupted /\ \A i \in varList : EveryAttemptOk(i)) =>
    /\ successes = totalIDs
    /\ failures = {}
    /\ \A i \in varList : attempts[i] = 1

C15_Witness ==
  /\ mainpc = "done" /\ ~interrupted /\ concurrent_requests < totalIDs
  /\ \A i \in varList : EveryAttemptOk(i) /\ results[i] = OK
  /\ successes = totalIDs

\* C16: with --stop and a limit of 1 (no Ctrl+C), once the only item
\* dispatched so far has been answered with status 500, no other item
\* is ever dispatched: the others return -1 and the summary counts 0
\* successes.
C16_FirstFailureStopsAll ==
  [][\A i \in varList :
       (/\ args_stop /\ concurrent_requests = 1 /\ ~interrupted
        /\ codes[i] = <<SERVER_ERROR>>
        /\ \A j \in varList \ {i} : attempts[j] = 0) =>
         /\ \A j \in varList \ {i} :
              /\ attempts'[j] = 0
              /\ pc'[j] = "returned" => results'[j] = FAILED
         /\ mainpc' = "done" => successes' = 0]_vars

\* C17: no item posts more than 1 time under --stop, or retries + 1 times
\* otherwise; under --stop an item answered 429 has returned a failure
\* after that one attempt, with the stop flag set.
C17_AttemptBound ==
  \A i \in varList :
    /\ attempts[i] <= (IF args_stop THEN 1 ELSE retries + 1)
    /\ (args_stop /\ respStatus[i] = TOO_MANY /\ lastBody[i] # "none") =>
         /\ pc[i] = "returned" /\ attempts[i] = 1
         /\ results[i] # OK /\ stop_immediately

C17_Witness ==
  /\ args_stop /\ retries = 2 /\ ~interrupted
  /\ \E i \in varList : codes[i] = <<TOO_MANY>> /\ pc[i] = "returned" /\ results[i] = FAILED
  /\ stop_immediately

\* C18: when every item posts at most once (retries = 0, or --stop),
\* activeTasks never exceeds concurrent_requests.
C18_SingleAttemptWithinLimit ==
  (args_stop \/ retries = 0) => activeTasks <= concurrent_requests

C18_Witness ==
  /\ (args_stop \/ retries = 0)
  /\ activeTasks = concurrent_requests
  /\ Cardinality({i \in varList : pc[i] = "post"}) = concurrent_requests
  /\ \E i \in varList : pc[i] = "gate"

\* C19: activeTasks is never negative, it is the number of posts awaiting
\* their response, and it is 0 once every task has returned.
C19_ActiveMatchesInFlight ==
  /\ activeTasks >= 0
  /\ activeTasks = Cardinality({i \in varList : pc[i] = "post"})
  /\ AllReturned => activeTasks = 0

\* C20: each item adds to doneTasks at most once, doneTasks is the number of
\* the items that did, so it never exceeds totalIDs, and the percentage
\* printed never exceeds 100.0.
C20_CountedOnce ==
  /\ \A i \in varList : counted[i] <= 1
  /\ doneTasks = Cardinality({i \in varList : counted[i] >= 1})
  /\ doneTasks <= totalIDs
  /\ percentComplete <= 1000

C20_Witness ==
  /\ doneTasks = totalIDs /\ percentComplete = 1000
  /\ \E i \in varList :
       /\ Len(codes[i]) = retries + 1 /\ retries >= 1 /\ respStatus[i] = TOO_MANY
       /\ pc[i] = "returned" /\ counted[i] = 1
  /\ \E i \in varList : Skipped(i) /\ attempts[i] = 1 /\ counted[i] = 1

====
